---------------------------- MODULE Spec2Model ----------------------------
(***************************************************************************)
(* Tour of Heroes: the incremental search pipeline of HeroSearchComponent, *)
(* the six operations of HeroService with their tap / catchError policy,   *)
(* and the local hero list of HeroesComponent.                             *)
(*                                                                         *)
(* Strings are TLA+ strings; a hero object is a record [ref, id, name]     *)
(* where ref is the identity of the JavaScript object (a fresh object is   *)
(* made whenever a response body is parsed); the absent value `undefined`  *)
(* is the record Undefined.                                                *)
(***************************************************************************)
EXTENDS Integers, Sequences, FiniteSets, TLC

VARIABLES
    now,          \* the clock, in the time units of debounceTime
    debounce,     \* debounceTime's pending value and timer
    lastKey,      \* distinctUntilChanged's last emitted key
    inner,        \* switchMap's current inner subscription (index in calls, 0: none)
    heroesStream, \* heroes$ as seen by its subscriber: "open" or "errored"
    delivered,    \* what heroes$ has emitted so far
    pushes,       \* history: the search(term) calls
    passed,       \* history: the pushes that debounceTime let through
    calls,        \* the HeroService method calls, with their HTTP request
    messages,     \* MessageService.messages
    msgBy,        \* history: for each message, the call that logged it
    heroes,       \* HeroesComponent.heroes
    store,        \* the backing store's hero collection
    nextRef,      \* the next fresh object identity
    thrown,       \* errors that reached no handler
    last,         \* history: the last step of HeroesComponent, and the state before it
    removed       \* history: the records delete was called with

vars == <<now, debounce, lastKey, inner, heroesStream, delivered, pushes,
          passed, calls, messages, msgBy, heroes, store, nextRef, thrown,
          last, removed>>

searchVars == <<now, debounce, lastKey, inner, heroesStream, delivered,
                pushes, passed>>
listVars == <<heroes, store, thrown, last, removed>>

----------------------------------------------------------------------------
(* Bounds of the model *)

MaxTerms == 3
MaxTicks == 7
MaxCalls == 3
MaxServiceCalls == 2

(* debounceTime(300) *)
DebounceTime == 300

(* The clock advances in steps of a third of the quiet interval. *)
Quantum == DebounceTime \div 3

(* The texts the user types into the search box. *)
Terms == {"", " ", "a", "a "}

(* The names the user types into the add box. *)
Names == {" ", "x", " y "}

Undefined == [undefined |-> TRUE]

(* The backing store's collection when the application starts. *)
InitialStore == <<[id |-> 11, name |-> "a"], [id |-> 12, name |-> "b"]>>

(* Bodies a search request can be answered with. *)
SearchBodies == {<<>>, <<[id |-> 11, name |-> "a"]>>}

(* error.message of a failed request *)
ErrorMessage == "Http failure response"

----------------------------------------------------------------------------
(* String.prototype.trim *)

RECURSIVE TrimLeft(_)
TrimLeft(s) ==
    IF Len(s) > 0 /\ SubSeq(s, 1, 1) = " "
    THEN TrimLeft(SubSeq(s, 2, Len(s)))
    ELSE s

RECURSIVE TrimRight(_)
TrimRight(s) ==
    IF Len(s) > 0 /\ SubSeq(s, Len(s), Len(s)) = " "
    THEN TrimRight(SubSeq(s, 1, Len(s) - 1))
    ELSE s

Trim(s) == TrimRight(TrimLeft(s))

----------------------------------------------------------------------------
(* HeroService *)

IsList(op) == op \in {"getHeroes", "searchHeroes"}

(* HttpClient parses a response body into fresh objects. *)
Parse(op, body, ref) ==
    IF IsList(op)
    THEN [k \in 1..Len(body) |->
            [ref |-> ref + k - 1, id |-> body[k].id, name |-> body[k].name]]
    ELSE IF op = "updateHero" THEN Undefined
    ELSE [ref |-> ref, id |-> body.id, name |-> body.name]

RefCount(op, body) ==
    IF IsList(op) THEN Len(body) ELSE IF op = "updateHero" THEN 0 ELSE 1

(* MessageService.add(message): the message goes to the end of the log. *)
MessageServiceAdd(msgs, message) == Append(msgs, message)

(* Mutant: the message is put at the head of the log. *)
LogAtHead(msgs, message) == <<"HeroService: " \o message>> \o msgs

(* private log(message): this.messageService.add('HeroService: ' + message) *)
Log(msgs, message) == MessageServiceAdd(msgs, "HeroService: " \o message)

(* The text each operation's tap logs. *)
SuccessMessage(c, value) ==
    CASE c.op = "getHeroes" -> "fetched heroes"
      [] c.op = "getHero" -> "fetched hero id=" \o ToString(c.arg)
      [] c.op = "updateHero" -> "updated hero id=" \o ToString(c.arg.id)
      [] c.op = "addHero" -> "added hero with id=" \o ToString(value.id)
      [] c.op = "deleteHero" -> "deleted hero id=" \o ToString(c.arg)
      [] c.op = "searchHeroes" -> "found heroes matching \"" \o c.arg \o "\""

(* The operation name each call site hands to handleError. *)
OperationName(c) ==
    IF c.op = "getHero" THEN "getHero id=" \o ToString(c.arg) ELSE c.op

(* The fallback each call site hands to handleError. *)
Fallback(op) == IF IsList(op) THEN <<>> ELSE Undefined

(* Mutant: the value is passed along and nothing is logged. *)
TapSilent(msgs, c, value) == [messages |-> msgs, value |-> value]

(* tap(x => this.log(...)): logs, and passes the value along untouched. *)
Tap(msgs, c, value) ==
    [messages |-> Log(msgs, SuccessMessage(c, value)), value |-> value]

(* Mutant: logs, and rethrows. *)
HandleErrorRethrow(msgs, operation, result) ==
    [messages |-> Log(msgs, operation \o " failed: " \o ErrorMessage),
     caught |-> FALSE,
     value |-> result]

(* handleError(operation, result): logs, and returns of(result). *)
HandleError(msgs, operation, result) ==
    [messages |-> Log(msgs, operation \o " failed: " \o ErrorMessage),
     caught |-> TRUE,
     value |-> result]

(* What the observable a service method returned does when the response r
   of call c arrives: .pipe(tap(...), catchError(handleError(...))). *)
Arrival(c, r, msgs, ref) ==
    IF r.ok
    THEN LET t == Tap(msgs, c, Parse(c.op, r.body, ref))
         IN  [value |-> t.value, messages |-> t.messages, error |-> FALSE,
              refs |-> RefCount(c.op, r.body)]
    ELSE LET h == HandleError(msgs, OperationName(c), Fallback(c.op))
         IN  [value |-> h.value, messages |-> h.messages,
              error |-> ~h.caught, refs |-> 0]

NoResponse == [ok |-> FALSE, body |-> <<>>]

(* A service method called: the HTTP request is sent on subscription. *)
NewCall(op, arg, by, push) ==
    [op |-> op, arg |-> arg, by |-> by, push |-> push, at |-> now,
     http |-> TRUE, state |-> "sent", subscribed |-> TRUE,
     resp |-> NoResponse, emitted |-> <<>>, error |-> FALSE]

(* Mutant: if (!term) *)
IsBlankNoTrim(term) == term = ""

(* searchHeroes: if (!term.trim()) *)
IsBlank(term) == Trim(term) = ""

(* searchHeroes(term) with a blank term: return of([]), no request. *)
BlankCall(term, by, push) ==
    [NewCall("searchHeroes", term, by, push) EXCEPT
        !.http = FALSE, !.state = "done", !.emitted = << <<>> >>]

(* The call records after the response r of call i has arrived and the
   service's pipe has run. *)
Arrived(i, r, a) ==
    [calls EXCEPT ![i].state = "done", ![i].resp = r,
                  ![i].emitted = IF a.error THEN @ ELSE Append(@, a.value),
                  ![i].error = a.error]

----------------------------------------------------------------------------
(* HeroSearchComponent *)

NoDebounce == [hasValue |-> FALSE, lastValue |-> "", push |-> 0, due |-> 0]

(* Mutant: a shorter quiet interval, debounceTime(100). *)
DebounceNextShort(d, value, push, t) ==
    [hasValue |-> TRUE, lastValue |-> value, push |-> push,
     due |-> t + Quantum]

(* Mutant: the running timer is kept, as auditTime does. *)
DebounceNextKeepTimer(d, value, push, t) ==
    [hasValue |-> TRUE, lastValue |-> value, push |-> push,
     due |-> IF d.hasValue THEN d.due ELSE t + DebounceTime]

(* debounceTime: a new value replaces the pending one and restarts the timer. *)
DebounceNext(d, value, push, t) ==
    [hasValue |-> TRUE, lastValue |-> value, push |-> push,
     due |-> t + DebounceTime]

(* Mutant: no comparison with the last key. *)
DistinctPassAlways(k, value) == TRUE

(* distinctUntilChanged: a value passes unless it equals the last key. *)
DistinctPass(k, value) == ~k.hasKey \/ k.key # value

(* Mutant: the previous inner subscription is kept, as mergeMap does. *)
SwitchUnsubscribeNone(cs, i) == cs

(* switchMap: the previous inner subscription is unsubscribed. *)
SwitchUnsubscribe(cs, i) ==
    IF i = 0 THEN cs ELSE [cs EXCEPT ![i].subscribed = FALSE]

(* search(term): this.searchTerms.next(term) *)
Search(term) ==
    /\ Len(pushes) < MaxTerms
    /\ pushes' = Append(pushes, [term |-> term, at |-> now])
    /\ debounce' = IF heroesStream = "open"
                   THEN DebounceNext(debounce, term, Len(pushes) + 1, now)
                   ELSE debounce
    /\ UNCHANGED <<now, lastKey, inner, heroesStream, delivered, passed,
                   calls, messages, msgBy, nextRef>>
    /\ UNCHANGED listVars

(* switchMap((term) => this.heroService.searchHeroes(term)) on a new term *)
SwitchMapNext(term, push) ==
    LET cs == SwitchUnsubscribe(calls, inner)
        n == Len(calls) + 1
    IN  IF IsBlank(term)
        THEN /\ calls' = Append(cs, BlankCall(term, "heroes$", push))
             /\ delivered' = Append(delivered,
                    [call |-> n, heroes |-> <<>>, latest |-> n])
             /\ inner' = 0
        ELSE /\ calls' = Append(cs, NewCall("searchHeroes", term, "heroes$", push))
             /\ delivered' = delivered
             /\ inner' = n

(* The debounce timer fires: the pending term goes down the pipe. *)
DebounceFire ==
    /\ heroesStream = "open"
    /\ debounce.hasValue
    /\ now >= debounce.due
    /\ debounce' = NoDebounce
    /\ passed' = Append(passed, debounce.push)
    /\ IF DistinctPass(lastKey, debounce.lastValue)
       THEN /\ lastKey' = [hasKey |-> TRUE, key |-> debounce.lastValue]
            /\ SwitchMapNext(debounce.lastValue, debounce.push)
       ELSE UNCHANGED <<lastKey, calls, delivered, inner>>
    /\ UNCHANGED <<now, heroesStream, pushes, messages, msgBy, nextRef>>
    /\ UNCHANGED listVars

(* Time passes; a due timer fires before it passes further. *)
Tick ==
    /\ now < MaxTicks * Quantum
    /\ ~(heroesStream = "open" /\ debounce.hasValue /\ now >= debounce.due)
    /\ now' = now + Quantum
    /\ UNCHANGED <<debounce, lastKey, inner, heroesStream, delivered, pushes,
                   passed, calls, messages, msgBy, nextRef>>
    /\ UNCHANGED listVars

(* The response of search request i arrives. *)
SearchResponse(i, r) ==
    /\ heroesStream = "open"
    /\ calls[i].op = "searchHeroes"
    /\ calls[i].by = "heroes$"
    /\ calls[i].state = "sent"
    /\ IF ~calls[i].subscribed
       THEN /\ calls' = [calls EXCEPT ![i].state = "discarded"]
            /\ UNCHANGED <<messages, msgBy, nextRef, delivered, inner,
                           heroesStream>>
       ELSE LET a == Arrival(calls[i], r, messages, nextRef)
            IN  /\ calls' = Arrived(i, r, a)
                /\ messages' = a.messages
                /\ msgBy' = msgBy \o [k \in 1..(Len(a.messages) - Len(messages)) |-> i]
                /\ nextRef' = nextRef + a.refs
                /\ delivered' = IF a.error THEN delivered
                                ELSE Append(delivered,
                                       [call |-> i, heroes |-> a.value,
                                        latest |-> Len(calls)])
                /\ inner' = IF inner = i THEN 0 ELSE inner
                /\ heroesStream' = IF a.error THEN "errored" ELSE heroesStream
    /\ UNCHANGED <<now, debounce, lastKey, pushes, passed>>
    /\ UNCHANGED listVars

SearchResponses ==
    {[ok |-> TRUE, body |-> b] : b \in SearchBodies} \cup {NoResponse}

----------------------------------------------------------------------------
(* The backing store behind the six requests *)

RECURSIVE MaxId(_)
MaxId(st) ==
    IF st = <<>> THEN 10
    ELSE LET m == MaxId(Tail(st))
         IN  IF Head(st).id > m THEN Head(st).id ELSE m

(* The identifier the store assigns to a new hero. *)
GenId(st) == MaxId(st) + 1

InStore(st, id) == \E k \in DOMAIN st : st[k].id = id

Find(st, id) == st[CHOOSE k \in DOMAIN st : st[k].id = id]

Without(st, id) == SelectSeq(st, LAMBDA h : h.id # id)

Ok(body) == [ok |-> TRUE, body |-> body]

(* The responses the store can give to call c: the operation's result, or
   a failure (a network error, a server error; not-found for an unknown id). *)
ServerResponses(c, st) ==
    {NoResponse} \cup
    CASE c.op = "getHeroes" -> {Ok(st)}
      [] c.op = "searchHeroes" -> {Ok(b) : b \in SearchBodies}
      [] c.op = "getHero" ->
            IF InStore(st, c.arg) THEN {Ok(Find(st, c.arg))} ELSE {}
      [] c.op = "addHero" -> {Ok([id |-> GenId(st), name |-> c.arg.name])}
      [] c.op = "updateHero" ->
            IF InStore(st, c.arg.id) THEN {Ok(c.arg)} ELSE {}
      [] c.op = "deleteHero" ->
            IF InStore(st, c.arg) THEN {Ok(Find(st, c.arg))} ELSE {}

(* The store's collection after it has answered call c with r. *)
StoreAfter(c, r, st) ==
    IF ~r.ok THEN st
    ELSE CASE c.op = "addHero" -> Append(st, r.body)
           [] c.op = "updateHero" ->
                 [k \in DOMAIN st |->
                     IF st[k].id = c.arg.id
                     THEN [id |-> c.arg.id, name |-> c.arg.name]
                     ELSE st[k]]
           [] c.op = "deleteHero" -> Without(st, c.arg)
           [] OTHER -> st

(* The store handles request i; its response is on its way. *)
Serve(i, r) ==
    /\ calls[i].http
    /\ calls[i].state = "sent"
    /\ r \in ServerResponses(calls[i], store)
    /\ calls' = [calls EXCEPT ![i].state = "served", ![i].resp = r]
    /\ store' = StoreAfter(calls[i], r, store)
    /\ UNCHANGED <<messages, msgBy, nextRef, heroes, thrown, last, removed>>
    /\ UNCHANGED searchVars

(* The response of call i arrives and the service's pipe runs. *)
Respond(i, a) ==
    /\ calls' = Arrived(i, calls[i].resp, a)
    /\ messages' = a.messages
    /\ msgBy' = msgBy \o [k \in 1..(Len(a.messages) - Len(messages)) |-> i]
    /\ nextRef' = nextRef + a.refs

----------------------------------------------------------------------------
(* A caller of HeroService other than the two components of this model *)

HeroIds == {11, 13}

ServiceArgs(op) ==
    CASE op = "getHeroes" -> {0}
      [] op = "getHero" -> HeroIds
      [] op = "deleteHero" -> HeroIds
      [] op = "addHero" -> {[name |-> "x"]}
      [] op = "updateHero" -> {[id |-> id, name |-> "x"] : id \in HeroIds}
      [] op = "searchHeroes" -> Terms

Operations ==
    {"getHeroes", "getHero", "addHero", "updateHero", "deleteHero",
     "searchHeroes"}

(* heroService.<op>(arg).subscribe(...) *)
ServiceCall(op, arg) ==
    /\ Len(calls) < MaxServiceCalls
    /\ calls' = Append(calls,
          IF op = "searchHeroes" /\ IsBlank(arg)
          THEN BlankCall(arg, "caller", 0)
          ELSE NewCall(op, arg, "caller", 0))
    /\ UNCHANGED <<messages, msgBy, nextRef>>
    /\ UNCHANGED searchVars
    /\ UNCHANGED listVars

CallerResponse(i) ==
    /\ calls[i].by = "caller"
    /\ calls[i].state = "served"
    /\ Respond(i, Arrival(calls[i], calls[i].resp, messages, nextRef))
    /\ UNCHANGED searchVars
    /\ UNCHANGED listVars

----------------------------------------------------------------------------
(* HeroesComponent *)

NoStep ==
    [op |-> "", name |-> "", hero |-> Undefined, call |-> 0,
     isSet |-> FALSE, list |-> <<>>, ncalls |-> 0, nmsgs |-> 0]

Step(op, name, hero, call) ==
    [op |-> op, name |-> name, hero |-> hero, call |-> call,
     isSet |-> heroes.isSet, list |-> heroes.list,
     ncalls |-> Len(calls), nmsgs |-> Len(messages)]

(* ngOnInit: this.getHeroes() *)
NgOnInit ==
    /\ calls = <<>>
    /\ calls' = Append(calls, NewCall("getHeroes", 0, "getHeroes", 0))
    /\ last' = Step("ngOnInit", "", Undefined, 1)
    /\ UNCHANGED <<messages, msgBy, nextRef, heroes, store, thrown, removed>>
    /\ UNCHANGED searchVars

(* getHeroes: subscribe(heroes => this.heroes = heroes) *)
GetHeroesResponse(i) ==
    /\ calls[i].by = "getHeroes"
    /\ calls[i].state = "served"
    /\ LET a == Arrival(calls[i], calls[i].resp, messages, nextRef)
       IN  /\ Respond(i, a)
           /\ heroes' = IF a.error THEN heroes
                        ELSE [isSet |-> TRUE, list |-> a.value]
           /\ thrown' = IF a.error THEN Append(thrown, "getHeroes") ELSE thrown
    /\ last' = Step("getHeroesResponse", "", Undefined, i)
    /\ UNCHANGED <<store, removed>>
    /\ UNCHANGED searchVars

(* Mutant: the name is taken as typed. *)
AddNameAsTyped(name) == name

(* add: name = name.trim() *)
AddName(name) == Trim(name)

(* add(name) *)
Add(name) ==
    /\ calls # <<>>
    /\ Len(calls) < MaxCalls
    /\ IF AddName(name) = ""
       THEN calls' = calls
       ELSE calls' = Append(calls,
                NewCall("addHero", [name |-> AddName(name)], "add", 0))
    /\ last' = Step("add", name, Undefined, 0)
    /\ UNCHANGED <<messages, msgBy, nextRef, heroes, store, thrown, removed>>
    /\ UNCHANGED searchVars

(* add: subscribe(hero => { this.heroes.push(hero); }) *)
AddResponse(i) ==
    /\ calls[i].by = "add"
    /\ calls[i].state = "served"
    /\ LET a == Arrival(calls[i], calls[i].resp, messages, nextRef)
       IN  /\ Respond(i, a)
           /\ heroes' = IF a.error \/ ~heroes.isSet THEN heroes
                        ELSE [heroes EXCEPT !.list = Append(@, a.value)]
           /\ thrown' = IF a.error THEN Append(thrown, "addHero")
                        ELSE IF ~heroes.isSet
                        THEN Append(thrown, "TypeError: this.heroes is undefined")
                        ELSE thrown
    /\ last' = Step("addResponse", "", Undefined, i)
    /\ UNCHANGED <<store, removed>>
    /\ UNCHANGED searchVars

(* Mutant: a test that holds for every element, h.id !== hero. *)
FilterKeepsAll(list, hero) == list

(* delete: this.heroes.filter(h => h !== hero) *)
Filter(list, hero) ==
    SelectSeq(list, LAMBDA h : h = Undefined \/ h.ref # hero.ref)

(* delete(hero), hero being a row of the list the view shows *)
Delete(hero) ==
    /\ heroes.isSet
    /\ Len(calls) < MaxCalls
    /\ heroes' = [heroes EXCEPT !.list = Filter(@, hero)]
    /\ calls' = Append(calls, NewCall("deleteHero", hero.id, "delete", 0))
    /\ last' = Step("delete", "", hero, Len(calls) + 1)
    /\ removed' = Append(removed,
          [hero |-> hero, call |-> Len(calls) + 1,
           pending |-> {i \in DOMAIN calls :
                          calls[i].op = "addHero" /\ calls[i].state # "done"}])
    /\ UNCHANGED <<messages, msgBy, nextRef, store, thrown>>
    /\ UNCHANGED searchVars

(* delete: this.heroService.deleteHero(hero).subscribe() *)
DeleteResponse(i) ==
    /\ calls[i].by = "delete"
    /\ calls[i].state = "served"
    /\ LET a == Arrival(calls[i], calls[i].resp, messages, nextRef)
       IN  /\ Respond(i, a)
           /\ thrown' = IF a.error THEN Append(thrown, "deleteHero") ELSE thrown
    /\ last' = Step("deleteResponse", "", Undefined, i)
    /\ UNCHANGED <<heroes, store, removed>>
    /\ UNCHANGED searchVars

(* The rows of the list: the records delete can be called with. *)
Rows == {heroes.list[k] : k \in {j \in DOMAIN heroes.list : heroes.list[j] # Undefined}}

----------------------------------------------------------------------------
Init ==
    /\ now = 0
    /\ debounce = NoDebounce
    /\ lastKey = [hasKey |-> FALSE, key |-> ""]
    /\ inner = 0
    /\ heroesStream = "open"
    /\ delivered = <<>>
    /\ pushes = <<>>
    /\ passed = <<>>
    /\ calls = <<>>
    /\ messages = <<>>
    /\ msgBy = <<>>
    /\ heroes = [isSet |-> FALSE, list |-> <<>>]
    /\ store = InitialStore
    /\ nextRef = 1
    /\ thrown = <<>>
    /\ last = NoStep
    /\ removed = <<>>

NextSearch ==
    \/ \E term \in Terms : Search(term)
    \/ DebounceFire
    \/ Tick
    \/ \E i \in DOMAIN calls : \E r \in SearchResponses : SearchResponse(i, r)

SpecSearch == Init /\ [][NextSearch]_vars

NextService ==
    \/ \E op \in Operations : \E arg \in ServiceArgs(op) : ServiceCall(op, arg)
    \/ \E i \in DOMAIN calls :
          \E r \in ServerResponses(calls[i], store) : Serve(i, r)
    \/ \E i \in DOMAIN calls : CallerResponse(i)

SpecService == Init /\ [][NextService]_vars

NextHeroes ==
    \/ NgOnInit
    \/ \E name \in Names : Add(name)
    \/ \E hero \in Rows : Delete(hero)
    \/ \E i \in DOMAIN calls :
          \E r \in ServerResponses(calls[i], store) : Serve(i, r)
    \/ \E i \in DOMAIN calls : GetHeroesResponse(i)
    \/ \E i \in DOMAIN calls : AddResponse(i)
    \/ \E i \in DOMAIN calls : DeleteResponse(i)

SpecHeroes == Init /\ [][NextHeroes]_vars

----------------------------------------------------------------------------
(* Shorthands over the history *)

PipelineCalls == {i \in DOMAIN calls : calls[i].by = "heroes$"}

DeliveriesOf(i) == {k \in DOMAIN delivered : delivered[k].call = i}

MessagesOf(i) == {k \in DOMAIN messages : msgBy[k] = i}

(* Push p was followed by another push less than the quiet interval later. *)
FollowedInBurst(p) ==
    p < Len(pushes) /\ pushes[p + 1].at - pushes[p].at < DebounceTime

(* The k-th term out of debounceTime differs from the one before it. *)
Distinct(k) ==
    k = 1 \/ pushes[passed[k]].term # pushes[passed[k - 1]].term

----------------------------------------------------------------------------
(* C1: in a burst of terms, each less than 300 time units after the one
   before, no term but the last reaches HeroService.searchHeroes, and the
   burst yields at most one delivered result, the one of its last term. *)
C1_BurstYieldsLastTerm ==
    /\ \A i \in PipelineCalls :
          /\ ~FollowedInBurst(calls[i].push)
          /\ calls[i].arg = pushes[calls[i].push].term
    /\ \A i, j \in PipelineCalls : calls[i].push = calls[j].push => i = j
    /\ \A i \in PipelineCalls : Cardinality(DeliveriesOf(i)) <= 1

C1_Witness ==
    \E k \in DOMAIN delivered :
        LET p == calls[delivered[k].call].push
        IN  /\ p > 2
            /\ pushes[p].at - pushes[p - 1].at < DebounceTime
            /\ pushes[p - 1].at - pushes[p - 2].at < DebounceTime
            /\ pushes[p].term # pushes[p - 1].term
            /\ delivered[k].heroes # <<>>

(* C2: once a later term has reached searchHeroes, the result of an
   earlier lookup is never delivered on heroes$, whether its response is a
   success or a failure and however late it arrives: every delivery is the
   result of the latest lookup made so far. *)
C2_SupersededNeverDelivered ==
    \A k \in DOMAIN delivered : delivered[k].call = delivered[k].latest

C2_Witness ==
    \E i \in PipelineCalls :
        /\ calls[i].state = "discarded"
        /\ \E k \in DOMAIN delivered :
              delivered[k].call > i /\ calls[delivered[k].call].http

(* C3: a term that passes debounce and dedup and is empty or all
   whitespace issues no request, delivers the empty list at once, and the
   lookup pending for the term before it is superseded. *)
C3_BlankTermShortCircuits ==
    \A i \in PipelineCalls :
        Trim(calls[i].arg) = "" =>
            /\ ~calls[i].http
            /\ \E k \in DOMAIN delivered :
                  /\ DeliveriesOf(i) = {k}
                  /\ delivered[k].heroes = <<>>
                  /\ delivered[k].latest = i
            /\ MessagesOf(i) = {}
            /\ \A j \in PipelineCalls : \A k \in DeliveriesOf(j) :
                  j < i => delivered[k].latest < i

C3_Witness ==
    \E i \in PipelineCalls :
        /\ calls[i].arg = " "
        /\ i > 1
        /\ calls[i - 1].state = "discarded"
        /\ DeliveriesOf(i) # {}

(* C4: when two consecutive terms out of the debounce are equal, the
   second calls searchHeroes not at all and delivers nothing, whatever the
   state of the first one's lookup. *)
C4_AdjacentEqualSuppressed ==
    \A k \in DOMAIN passed :
        ~Distinct(k) =>
            \A i \in PipelineCalls : calls[i].push # passed[k]

C4_Witness ==
    \E k \in DOMAIN passed :
        /\ ~Distinct(k)
        /\ \E i \in PipelineCalls :
              /\ calls[i].push = passed[k - 1]
              /\ calls[i].state = "sent"

(* C5: heroes$ delivers results in the order in which their terms were
   accepted: a result of an earlier lookup is never delivered after one
   of a later lookup. *)
C5_DeliveredInAcceptanceOrder ==
    \A j, k \in DOMAIN delivered :
        j < k => delivered[j].call < delivered[k].call

C5_Witness ==
    \E j, k \in DOMAIN delivered :
        /\ j < k
        /\ calls[delivered[j].call].http
        /\ calls[delivered[k].call].http
        /\ calls[delivered[j].call].resp.ok
        /\ ~calls[delivered[k].call].resp.ok

(* C6: a failed search lookup leaves heroes$ open: the failing term
   delivers the empty list and logs one failure message, and every later
   term out of debounce and dedup still calls searchHeroes and, once its
   response has arrived unsuperseded, has its result delivered. *)
C6_FailureKeepsStreamOpen ==
    /\ heroesStream = "open"
    /\ \A i \in PipelineCalls :
          (calls[i].state = "done" /\ calls[i].http /\ ~calls[i].resp.ok) =>
              /\ \E k \in DOMAIN delivered :
                    DeliveriesOf(i) = {k} /\ delivered[k].heroes = <<>>
              /\ \E m \in DOMAIN messages :
                    /\ MessagesOf(i) = {m}
                    /\ messages[m] = "HeroService: searchHeroes failed: "
                                        \o ErrorMessage
    /\ \A k \in DOMAIN passed :
          Distinct(k) => \E i \in PipelineCalls : calls[i].push = passed[k]
    /\ \A i \in PipelineCalls :
          calls[i].state = "done" => Cardinality(DeliveriesOf(i)) = 1

C6_Witness ==
    \E i, j \in PipelineCalls :
        /\ i < j
        /\ calls[i].state = "done" /\ calls[i].http /\ ~calls[i].resp.ok
        /\ calls[j].state = "done" /\ calls[j].http /\ calls[j].resp.ok
        /\ \E k \in DeliveriesOf(j) : delivered[k].heroes # <<>>

----------------------------------------------------------------------------
(* What each operation is to log *)

FailureText(c) ==
    "HeroService: "
    \o (CASE c.op = "getHeroes" -> "getHeroes"
          [] c.op = "getHero" -> "getHero id=" \o ToString(c.arg)
          [] c.op = "addHero" -> "addHero"
          [] c.op = "updateHero" -> "updateHero"
          [] c.op = "deleteHero" -> "deleteHero"
          [] c.op = "searchHeroes" -> "searchHeroes")
    \o " failed: " \o ErrorMessage

SuccessText(c) ==
    "HeroService: "
    \o (CASE c.op = "getHeroes" -> "fetched heroes"
          [] c.op = "getHero" -> "fetched hero id=" \o ToString(c.arg)
          [] c.op = "addHero" -> "added hero with id=" \o ToString(c.resp.body.id)
          [] c.op = "updateHero" -> "updated hero id=" \o ToString(c.arg.id)
          [] c.op = "deleteHero" -> "deleted hero id=" \o ToString(c.arg)
          [] c.op = "searchHeroes" -> "found heroes matching \"" \o c.arg \o "\"")

ListOperation(c) == c.op \in {"getHeroes", "searchHeroes"}

(* Call c has emitted the body of its response, and nothing else. *)
EmittedResult(c) ==
    /\ Len(c.emitted) = 1
    /\ IF ListOperation(c)
       THEN /\ Len(c.emitted[1]) = Len(c.resp.body)
            /\ \A k \in DOMAIN c.resp.body :
                  /\ c.emitted[1][k].id = c.resp.body[k].id
                  /\ c.emitted[1][k].name = c.resp.body[k].name
       ELSE IF c.op = "updateHero" THEN c.emitted[1] = Undefined
       ELSE /\ c.emitted[1].id = c.resp.body.id
            /\ c.emitted[1].name = c.resp.body.name

Failed(c) == c.state = "done" /\ c.http /\ ~c.resp.ok

Succeeded(c) == c.state = "done" /\ c.http /\ c.resp.ok

(* C7: a failed request of any of the six operations throws nothing at
   the caller: the stream emits exactly one value, the fallback (the empty
   list for getHeroes and searchHeroes, undefined for the others), and
   exactly one failure message is appended to the log. *)
C7_FailureYieldsFallback ==
    \A i \in DOMAIN calls :
        Failed(calls[i]) =>
            /\ ~calls[i].error
            /\ Len(calls[i].emitted) = 1
            /\ IF ListOperation(calls[i])
               THEN calls[i].emitted[1] = <<>>
               ELSE calls[i].emitted[1] = Undefined
            /\ \E m \in DOMAIN messages :
                  MessagesOf(i) = {m} /\ messages[m] = FailureText(calls[i])

C7_Witness ==
    \E i, j \in DOMAIN calls :
        /\ Failed(calls[i]) /\ calls[i].op = "getHeroes"
        /\ Failed(calls[j]) /\ calls[j].op = "getHero"

(* C8, as claimed: every call of the six operations that completes
   successfully delivers its result and appends a success message. *)
C8_EverySuccessLogs ==
    \A i \in DOMAIN calls :
        (calls[i].state = "done" /\ (calls[i].http => calls[i].resp.ok)) =>
            /\ Len(calls[i].emitted) = 1
            /\ Cardinality(MessagesOf(i)) = 1

(* C8, amended: every call whose request succeeds delivers the response's
   result unchanged and appends exactly one message describing the
   operation; searchHeroes with a blank term, which sends no request,
   delivers the empty list and appends no message. *)
C8_RequestSuccessLogs ==
    \A i \in DOMAIN calls :
        /\ Succeeded(calls[i]) =>
              /\ ~calls[i].error
              /\ EmittedResult(calls[i])
              /\ \E m \in DOMAIN messages :
                    MessagesOf(i) = {m} /\ messages[m] = SuccessText(calls[i])
        /\ (calls[i].state = "done" /\ ~calls[i].http) =>
              /\ calls[i].op = "searchHeroes"
              /\ Trim(calls[i].arg) = ""
              /\ calls[i].emitted = << <<>> >>
              /\ MessagesOf(i) = {}

C8_Witness ==
    \E i, j \in DOMAIN calls :
        /\ Succeeded(calls[i]) /\ calls[i].op = "searchHeroes"
        /\ calls[i].resp.body # <<>>
        /\ calls[j].state = "done" /\ ~calls[j].http /\ calls[j].arg = " "

----------------------------------------------------------------------------
HasId(h, id) == h # Undefined /\ h.id = id

(* C9: the list right after delete(hero) holds no record with hero's
   identifier and keeps all the others in their order, and the response of
   the backing delete, a failure included, leaves the list as it is. *)
C9_DeleteRemovesIdentifier ==
    /\ last.op = "delete" =>
          heroes.list = SelectSeq(last.list, LAMBDA h : ~HasId(h, last.hero.id))
    /\ last.op = "deleteResponse" => heroes.list = last.list

(* C10: add with a name that is empty or all whitespace sends no request,
   logs nothing and leaves the local list as it was. *)
C10_BlankAddIsNoOp ==
    (last.op = "add" /\ Trim(last.name) = "") =>
        /\ Len(calls) = last.ncalls
        /\ Len(messages) = last.nmsgs
        /\ heroes.isSet = last.isSet
        /\ heroes.list = last.list

C10_Witness ==
    /\ last.op = "add"
    /\ last.name = " "
    /\ heroes.isSet
    /\ heroes.list # <<>>

----------------------------------------------------------------------------
(* C11: a term out of debounce and dedup whose response arrives before a
   later term supersedes it has exactly one result delivered, in the very
   step in which the response arrives; a lookup that has not responded, or
   that was superseded first, has none, and a lookup that never responds
   does not keep the result of a later term from being delivered. *)
C11_OneResultPerSurvivingTerm ==
    \A i \in PipelineCalls :
        /\ calls[i].state = "done" =>
              \E k \in DOMAIN delivered :
                  DeliveriesOf(i) = {k} /\ delivered[k].latest = i
        /\ calls[i].state \in {"sent", "discarded"} => DeliveriesOf(i) = {}
        /\ \A j \in PipelineCalls :
              (j < i /\ calls[j].state = "sent" /\ calls[i].state = "done")
                  => DeliveriesOf(i) # {}

C11_Witness ==
    \E i, j \in PipelineCalls :
        /\ j < i
        /\ calls[j].state = "sent"
        /\ calls[i].state = "done" /\ calls[i].http
        /\ \E k \in DeliveriesOf(i) : delivered[k].heroes # <<>>

(* C13: two successive calls of searchHeroes by the pipeline are at least
   300 time units apart. *)
C13_CallsAQuietIntervalApart ==
    \A i, j \in PipelineCalls :
        i < j => calls[j].at - calls[i].at >= DebounceTime

C13_Witness ==
    \E i, j \in PipelineCalls :
        /\ j = i + 1
        /\ calls[j].at - calls[i].at = DebounceTime
        /\ pushes[calls[j].push].at = calls[i].at

(* C18: a lookup logs only when its result is delivered on heroes$ as the
   result of the latest term: at most one message, 'found heroes matching'
   or 'searchHeroes failed'; a lookup superseded before its response, and
   a blank term, log nothing. *)
C18_OnlyDeliveredLookupsLog ==
    \A i \in PipelineCalls :
        /\ Cardinality(MessagesOf(i)) <= 1
        /\ \A m \in MessagesOf(i) :
              /\ \E k \in DeliveriesOf(i) : delivered[k].latest = i
              /\ messages[m] \in
                    {"HeroService: found heroes matching \"" \o calls[i].arg \o "\"",
                     "HeroService: searchHeroes failed: " \o ErrorMessage}
        /\ calls[i].state = "discarded" => MessagesOf(i) = {}
        /\ Trim(calls[i].arg) = "" => MessagesOf(i) = {}
    /\ Len(msgBy) = Len(messages)
    /\ \A m \in DOMAIN msgBy : msgBy[m] \in PipelineCalls

C18_Witness ==
    \E i, j \in PipelineCalls :
        /\ calls[i].state = "discarded"
        /\ j > i
        /\ MessagesOf(j) # {}
        /\ calls[j].resp.ok

----------------------------------------------------------------------------
(* A call completes in this step: its response arrives. *)
Completes(i) == calls[i].state # "done" /\ calls'[i].state = "done"

(* C12: every step of the service leaves the message log as it is or
   appends one message at its end, keeping all the messages before it in
   place; a message is appended exactly when a request completes, and it is
   that request's, so the log is in the order of completion. *)
C12_LogAppendOnly ==
    [][/\ \/ messages' = messages
          \/ /\ Len(messages') = Len(messages) + 1
             /\ SubSeq(messages', 1, Len(messages)) = messages
       /\ \A i \in DOMAIN calls :
             Completes(i) =>
                 /\ Len(messages') = Len(messages) + 1
                 /\ msgBy'[Len(messages')] = i
       /\ messages' # messages => \E i \in DOMAIN calls : Completes(i)
      ]_vars

C12_Witness ==
    /\ Len(messages) = 2
    /\ msgBy = <<2, 1>>
    /\ calls[1].op = "getHeroes"
    /\ calls[2].op = "deleteHero"

----------------------------------------------------------------------------
(* The response of a successful add has just arrived. *)
AddSucceeded ==
    /\ last.op = "addResponse"
    /\ calls[last.call].resp.ok

(* C14: after an add whose request succeeded the list is the list before
   the response with one record appended at its end, the store's record
   with its identifier and the trimmed name. *)
C14_AddAppendsStoreRecord ==
    AddSucceeded =>
        LET c == calls[last.call]
            n == Len(heroes.list)
        IN  /\ n = Len(last.list) + 1
            /\ SubSeq(heroes.list, 1, n - 1) = last.list
            /\ heroes.list[n] # Undefined
            /\ heroes.list[n].id = c.resp.body.id
            /\ heroes.list[n].name = c.arg.name
            /\ c.arg.name = Trim(c.arg.name)
            /\ c.arg.name # ""

(* C15: every element of the list is a hero record, and an add whose
   request failed leaves the list as it was. *)
C15_ListHoldsHeroRecords ==
    /\ \A k \in DOMAIN heroes.list : heroes.list[k] # Undefined
    /\ (last.op = "addResponse" /\ ~calls[last.call].resp.ok) =>
          heroes.list = last.list

(* C16: the list has been set by getHeroes before the callback of add or
   delete uses it. *)
C16_ListSetBeforeUse ==
    /\ last.op \in {"addResponse", "delete"} => last.isSet
    /\ thrown = <<>>

InList(ref) ==
    \E k \in DOMAIN heroes.list :
        heroes.list[k] # Undefined /\ heroes.list[k].ref = ref

(* C17: when delete ran while the request of an add was under way and the
   add succeeded, the added record is in the list from the response on
   (until it is deleted itself) and the deleted record is not, whichever of
   the two responses arrives first. *)
C17_AddSurvivesDelete ==
    \A d \in DOMAIN removed :
        /\ ~InList(removed[d].hero.ref)
        /\ \A i \in removed[d].pending :
              Succeeded(calls[i]) =>
                  LET added == calls[i].emitted[1]
                  IN  \/ InList(added.ref)
                      \/ \E e \in DOMAIN removed :
                            removed[e].hero.ref = added.ref

C17_Witness ==
    \E d \in DOMAIN removed : \E i \in removed[d].pending :
        /\ Succeeded(calls[i])
        /\ calls[removed[d].call].state = "served"
        /\ ~calls[removed[d].call].resp.ok
        /\ InList(calls[i].emitted[1].ref)
        /\ heroes.list # last.list

=============================================================================
